---- MODULE Spec2Model ----
(***************************************************************************)
(* A model of word_to_gitbook.py: the WordToGitBookConverter pipeline      *)
(* (create output directories, load the document, extract images, build    *)
(* the table of contents, segment the body into chapter files, emit the    *)
(* configuration files) and its pure rendering helpers.                    *)
(*                                                                         *)
(* Text is modelled as a sequence of characters; every character is a      *)
(* one-token string.  Characters outside ASCII are written as tokens       *)
(* ("u6587" is U+6587).                                                    *)
(***************************************************************************)
EXTENDS Integers, Sequences, FiniteSets, TLC

VARIABLES
    pc,               \* position of main()/convert()
    rc,               \* exit status of main(): -1 while running
    out_exists,       \* whether config.output_dir exists on disk
    files,            \* the files under output_dir: path -> content
    doc,              \* the loaded document, NoDoc before Document(path)
    max_toc_level,    \* config.max_toc_level
    toc_items,        \* self.toc_items
    current_chapter,  \* self.current_chapter
    image_counter,    \* self.image_counter
    image_map,        \* self.image_map: rel id -> image file name
    idx,              \* loop index of the pass under way
    current_toc_item, \* _generate_chapter_files: current_toc_item (NoItem: None)
    current_content,  \* _generate_chapter_files: current_content, a list of fragments
    saves,            \* history: the (item, content) pairs saved by the segmenter
    call_in,          \* argument of the last direct call of a helper
    call_out          \* result of the last direct call of a helper

vars == <<pc, rc, out_exists, files, doc, max_toc_level, toc_items,
          current_chapter, image_counter, image_map, idx, current_toc_item,
          current_content, saves, call_in, call_out>>

(***************************************************************************)
(* Bounds of the model.                                                    *)
(***************************************************************************)
MaxNodes == 3        \* body nodes per document
MaxTocLevel == 2     \* largest configured max_toc_level
MaxCalls == 3        \* direct calls of _generate_filename per run
MaxTitleLen == 3     \* characters per short title in the direct calls
MaxRuns == 2         \* runs per paragraph in the direct helper calls
MaxRows == 2         \* rows per table in the direct helper calls

(***************************************************************************)
(* Characters and strings.                                                 *)
(***************************************************************************)
NL == "\n"
Whitespace == {" ", NL, "\t"}
Cjk == {"u6587", "u6863", "u5185", "u5bb9", "u56fe", "u7247"}
Letters == {"A", "B", "D", "H", "I", "N", "S", "T", "a", "c", "d", "e", "g", "h", "i",
            "j", "l", "m", "n", "o", "p", "r", "s", "t", "u", "x", "y"}
DigitChars == <<"0", "1", "2", "3", "4", "5", "6", "7", "8", "9">>
\* \w of a Python 3 str pattern: letters, digits, underscore, ideographs
WordChars == Letters \cup {DigitChars[i] : i \in 1..10} \cup {"_"} \cup Cjk

RECURSIVE Flatten(_)
Flatten(ss) == IF ss = <<>> THEN <<>> ELSE Head(ss) \o Flatten(Tail(ss))

RECURSIVE Rep(_, _)
Rep(s, n) == IF n <= 0 THEN <<>> ELSE s \o Rep(s, n - 1)

RECURSIVE Join(_, _)
Join(sep, ss) ==
    IF ss = <<>> THEN <<>>
    ELSE IF Len(ss) = 1 THEN ss[1]
    ELSE ss[1] \o sep \o Join(sep, Tail(ss))

RECURSIVE LStrip(_, _)
LStrip(s, cs) == IF s # <<>> /\ Head(s) \in cs THEN LStrip(Tail(s), cs) ELSE s

RECURSIVE RStrip(_, _)
RStrip(s, cs) ==
    IF s # <<>> /\ s[Len(s)] \in cs THEN RStrip(SubSeq(s, 1, Len(s) - 1), cs) ELSE s

\* str.strip(): both ends
Strip(s, cs) == RStrip(LStrip(s, cs), cs)

RECURSIVE Digits(_)
Digits(n) ==
    IF n < 10 THEN <<DigitChars[n + 1]>>
    ELSE Digits(n \div 10) \o <<DigitChars[(n % 10) + 1]>>

\* format(n, "03d")
Pad3(n) == Rep(<<"0">>, 3 - Len(Digits(n))) \o Digits(n)

\* str.replace(old, new) for a one-character old
RECURSIVE Replace(_, _, _)
Replace(s, old, new) ==
    IF s = <<>> THEN <<>>
    ELSE (IF Head(s) = old THEN new ELSE <<Head(s)>>) \o Replace(Tail(s), old, new)

IsPrefix(p, s) == Len(p) <= Len(s) /\ SubSeq(s, 1, Len(p)) = p

\* whether t occurs in s as a contiguous substring
Contains(s, t) ==
    \E i \in 0..(Len(s) - Len(t)) : SubSeq(s, i + 1, i + Len(t)) = t

(***************************************************************************)
(* Document values.  A run is                                              *)
(*   [text, bold, italic, underline, drawings, blips, picts]               *)
(* where drawings lists, per w:drawing of the run, the r:embed ids of its  *)
(* a:blip elements, blips lists the r:embed ids of the a:blip elements     *)
(* outside any w:drawing, and picts lists, per w:pict, the r:id of its     *)
(* v:imagedata elements.  The id <<>> is a missing attribute (None).       *)
(* A paragraph is [kind |-> "p", style, runs]; a table is                  *)
(* [kind |-> "tbl", rows] with rows a sequence of sequences of cell texts. *)
(***************************************************************************)
NoRid == <<>>
HeadingWord == <<"H", "e", "a", "d", "i", "n", "g">>

\* Paragraph.text: the runs' text, concatenated
ParaText(para) == Flatten([i \in 1..Len(para.runs) |-> para.runs[i].text])

\* para.style.name.startswith('Heading')
IsHeading(para) == IsPrefix(HeadingWord, para.style)

IsDigit(c) == \E i \in 1..10 : DigitChars[i] = c
DigitVal(c) == (CHOOSE i \in 1..10 : DigitChars[i] = c) - 1

RECURSIVE ParseInt(_, _)
\* int() of the longest run of digits at the head of s
ParseInt(s, acc) ==
    IF s # <<>> /\ IsDigit(Head(s)) THEN ParseInt(Tail(s), 10 * acc + DigitVal(Head(s)))
    ELSE acc

\* a mutant: the level is read one too deep
ExtractHeadingLevelOff(style_name) ==
    LET after(i) == LStrip(SubSeq(style_name, i + Len(HeadingWord), Len(style_name)),
                           Whitespace)
        hits == {i \in 1..Len(style_name) :
                    /\ IsPrefix(HeadingWord, SubSeq(style_name, i, Len(style_name)))
                    /\ after(i) # <<>>
                    /\ IsDigit(Head(after(i)))}
    IN  IF hits = {} THEN 1
        ELSE ParseInt(after(CHOOSE i \in hits : \A j \in hits : i <= j), 0) + 1

\* re.search(r'Heading\s*(\d+)', style_name): the leftmost match, else 1
ExtractHeadingLevel(style_name) ==
    LET after(i) == LStrip(SubSeq(style_name, i + Len(HeadingWord), Len(style_name)),
                           Whitespace)
        hits == {i \in 1..Len(style_name) :
                    /\ IsPrefix(HeadingWord, SubSeq(style_name, i, Len(style_name)))
                    /\ after(i) # <<>>
                    /\ IsDigit(Head(after(i)))}
    IN  IF hits = {} THEN 1
        ELSE ParseInt(after(CHOOSE i \in hits : \A j \in hits : i <= j), 0)

(***************************************************************************)
(* _generate_filename                                                      *)
(***************************************************************************)
MaxSlugLen == 50
MinSlugLen == 2
MdExt == <<".", "m", "d">>
ChapterPrefix == <<"c", "h", "a", "p", "t", "e", "r", "-">>
SlugSeparators == {"-"} \cup Whitespace

\* re.sub(r'[^\w\s\u4e00-\u9fff-]', '', title)
RemoveInvalid(title) ==
    SelectSeq(title, LAMBDA c : c \in WordChars \cup Whitespace \cup Cjk \cup {"-"})

RECURSIVE Collapse(_)
\* re.sub(r'[-\s]+', '-', s)
Collapse(s) ==
    IF s = <<>> THEN <<>>
    ELSE IF Head(s) \in SlugSeparators
         THEN <<"-">> \o Collapse(LStrip(s, SlugSeparators))
         ELSE <<Head(s)>> \o Collapse(Tail(s))

CleanTitle(title) == Strip(Collapse(RemoveInvalid(title)), {"-"})

\* a mutant: the fallback name is used only for an empty slug
GenerateFilenameNoShort(title, chapter) ==
    LET clean == CleanTitle(title)
        fallback == clean = <<>>
        named == IF fallback THEN ChapterPrefix \o Digits(chapter) ELSE clean
        cut == IF Len(named) > MaxSlugLen THEN SubSeq(named, 1, MaxSlugLen) ELSE named
    IN  [filename |-> cut \o MdExt,
         chapter |-> IF fallback THEN chapter + 1 ELSE chapter]

\* the file name, and self.current_chapter after the call
GenerateFilename(title, chapter) ==
    LET clean == CleanTitle(title)
        fallback == clean = <<>> \/ Len(clean) < MinSlugLen
        named == IF fallback THEN ChapterPrefix \o Digits(chapter) ELSE clean
        cut == IF Len(named) > MaxSlugLen THEN SubSeq(named, 1, MaxSlugLen) ELSE named
    IN  [filename |-> cut \o MdExt,
         chapter |-> IF fallback THEN chapter + 1 ELSE chapter]

(***************************************************************************)
(* _process_paragraph_formatting                                           *)
(***************************************************************************)
BoldMark == <<"*", "*">>
ItalicMark == <<"*">>
UOpen == <<"<", "u", ">">>
UClose == <<"<", "/", "u", ">">>

\* a mutant: the underline wrapper is applied first
FormatRunUnderlineFirst(run) ==
    LET t1 == IF run.underline THEN UOpen \o run.text \o UClose ELSE run.text
        t2 == IF run.bold THEN BoldMark \o t1 \o BoldMark ELSE t1
        t3 == IF run.italic THEN ItalicMark \o t2 \o ItalicMark ELSE t2
    IN  t3

\* one iteration of the loop over para.runs
FormatRun(run) ==
    LET t1 == IF run.bold THEN BoldMark \o run.text \o BoldMark ELSE run.text
        t2 == IF run.italic THEN ItalicMark \o t1 \o ItalicMark ELSE t1
        t3 == IF run.underline THEN UOpen \o t2 \o UClose ELSE t2
    IN  t3

ProcessParagraphFormatting(para) ==
    Flatten([i \in 1..Len(para.runs) |-> FormatRun(para.runs[i])])

(***************************************************************************)
(* _process_images_in_paragraph                                            *)
(***************************************************************************)
AssetsDir == <<"a", "s", "s", "e", "t", "s">>
ImageAlt == <<"u56fe", "u7247">>

\* the text appended for one image: "\n\n![..](<assets_dir>/<filename>)\n\n"
ImageTag(image_filename) ==
    <<NL, NL, "!", "[">> \o ImageAlt \o <<"]", "(">> \o AssetsDir \o <<"/">>
        \o image_filename \o <<")", NL, NL>>

\* a mutant: every a:blip of the run is read, a w:drawing in the run or not
EmbedRefsAll(run) == Flatten(run.drawings) \o run.blips

\* the r:embed ids one run hands to the first two branches, in the order read:
\* those of the a:blip elements inside its w:drawing elements when it has any,
\* else (elif) those of its other a:blip elements
EmbedRefs(run) ==
    IF run.drawings # <<>> THEN Flatten(run.drawings) ELSE run.blips

\* the r:id of the v:imagedata elements inside the run's w:pict elements
PictRefs(run) == Flatten(run.picts)

RECURSIVE EmitRefs(_, _, _)
\* the inner loops: a tag for every id that is set, mapped and not yet processed;
\* acc is [text, processed]
EmitRefs(rids, imap, acc) ==
    IF rids = <<>> THEN acc
    ELSE LET rId == Head(rids)
             hit == rId # NoRid /\ rId \in DOMAIN imap /\ rId \notin acc.processed
         IN  EmitRefs(Tail(rids), imap,
                      IF hit THEN [text |-> acc.text \o ImageTag(imap[rId]),
                                   processed |-> acc.processed \cup {rId}]
                      ELSE acc)

RECURSIVE ImagesOfRuns(_, _, _)
\* the loop over para.runs
ImagesOfRuns(runs, imap, acc) ==
    IF runs = <<>> THEN acc
    ELSE ImagesOfRuns(Tail(runs), imap,
             EmitRefs(PictRefs(Head(runs)), imap,
                      EmitRefs(EmbedRefs(Head(runs)), imap, acc)))

ProcessImagesInParagraph(para, text, imap) ==
    ImagesOfRuns(para.runs, imap, [text |-> text, processed |-> {}]).text

(***************************************************************************)
(* _convert_paragraph_to_markdown, _convert_table_to_markdown              *)
(***************************************************************************)
\* a mutant: the style is tested before the text, a blank heading gets a
\* heading line
ConvertParagraphHeadingFirst(para, imap) ==
    IF IsHeading(para)
    THEN Rep(<<"#">>, ExtractHeadingLevel(para.style)) \o <<" ">> \o ParaText(para)
             \o <<NL, NL>>
    ELSE IF Strip(ParaText(para), Whitespace) = <<>>
    THEN LET image_text == ProcessImagesInParagraph(para, <<>>, imap)
         IN  IF Strip(image_text, Whitespace) # <<>> THEN image_text \o <<NL>>
             ELSE <<NL>>
    ELSE ProcessImagesInParagraph(para, ProcessParagraphFormatting(para), imap)
             \o <<NL, NL>>

ConvertParagraphToMarkdown(para, imap) ==
    IF Strip(ParaText(para), Whitespace) = <<>>
    THEN LET image_text == ProcessImagesInParagraph(para, <<>>, imap)
         IN  IF Strip(image_text, Whitespace) # <<>> THEN image_text \o <<NL>>
             ELSE <<NL>>
    ELSE IF IsHeading(para)
    THEN Rep(<<"#">>, ExtractHeadingLevel(para.style)) \o <<" ">> \o ParaText(para)
             \o <<NL, NL>>
    ELSE ProcessImagesInParagraph(para, ProcessParagraphFormatting(para), imap)
             \o <<NL, NL>>

CellSep == <<" ", "|", " ">>
Dashes == <<"-", "-", "-">>
BrTag == <<"<", "b", "r", ">">>

\* "| " + " | ".join(cells) + " |"
PipeRow(cells) == <<"|", " ">> \o Join(CellSep, cells) \o <<" ", "|">>

HeaderCells(row) == [i \in 1..Len(row) |-> Strip(row[i], Whitespace)]

DataCells(row) ==
    [i \in 1..Len(row) |-> Replace(Strip(row[i], Whitespace), NL, BrTag)]

\* the list markdown_table
TableLines(rows) ==
    <<PipeRow(HeaderCells(rows[1])),
      PipeRow([i \in 1..Len(rows[1]) |-> Dashes])>>
    \o [k \in 1..(Len(rows) - 1) |-> PipeRow(DataCells(rows[k + 1]))]

ConvertTableToMarkdown(table) ==
    IF table.rows = <<>> THEN <<>>
    ELSE Join(<<NL>>, TableLines(table.rows)) \o <<NL, NL>>

\* dispatch on the element type, as in the loops over doc.element.body
RenderNode(node, imap) ==
    IF node.kind = "p" THEN ConvertParagraphToMarkdown(node, imap)
    ELSE ConvertTableToMarkdown(node)

(***************************************************************************)
(* The documents the conversion is run on.                                 *)
(***************************************************************************)
Run(text) ==
    [text |-> text, bold |-> FALSE, italic |-> FALSE, underline |-> FALSE,
     drawings |-> <<>>, blips |-> <<>>, picts |-> <<>>]

Rid1 == <<"r", "I", "d", "1">>
Rid2 == <<"r", "I", "d", "2">>
Rid3 == <<"r", "I", "d", "3">>
RidX == <<"r", "I", "d", "9">>   \* an id no relationship of the package has

StyleNormal == <<"N", "o", "r", "m", "a", "l">>
StyleHeading == HeadingWord
StyleH1 == HeadingWord \o <<" ", "1">>
StyleH2 == HeadingWord \o <<" ", "2">>

Para(style, runs) == [kind |-> "p", style |-> style, runs |-> runs]
Table(rows) == [kind |-> "tbl", rows |-> rows]

TIntro == <<"I", "n", "t", "r", "o">>
TSetup == <<"S", "e", "t", "u", "p">>
TDone == <<"d", "o", "n", "e">>

HIntro == Para(StyleH1, <<Run(TIntro)>>)
HSetup == Para(StyleH2, <<Run(TSetup)>>)
HBang == Para(StyleHeading, <<Run(<<"!", "!">>)>>)
HBlank == Para(StyleH1, <<[Run(<<" ">>) EXCEPT !.drawings = <<<<Rid1>>>>]>>)
PDone == Para(StyleNormal, <<Run(TDone)>>)
PImage == Para(StyleNormal, <<[Run(<<>>) EXCEPT !.picts = <<<<Rid3>>>>]>>)
TabAB == Table(<<<<<<"A">>, <<"B">>>>, <<<<"1">>, <<"2">>>>>>)

Nodes == {HIntro, HSetup, HBang, HBlank, PDone, PImage, TabAB}

\* doc.part.related_parts, in the order of the dict; fmt is what PIL reads
\* from the blob
DocParts ==
    <<[rid |-> Rid1, content_type |-> <<"i", "m", "a", "g", "e", "/", "p", "n", "g">>,
       fmt |-> <<"j", "p", "e", "g">>],
      [rid |-> Rid2, content_type |-> <<"t", "e", "x", "t", "/", "x", "m", "l">>,
       fmt |-> <<>>],
      [rid |-> Rid3, content_type |-> <<"i", "m", "a", "g", "e", "/", "t", "i", "f", "f">>,
       fmt |-> <<"t", "i", "f", "f">>]>>

SeqsUpTo(S, n) == UNION {[1..k -> S] : k \in 0..n}

Docs == {[body |-> b, parts |-> DocParts] : b \in SeqsUpTo(Nodes, MaxNodes)}

NoDoc == [body |-> <<>>, parts |-> <<>>]
NoItem == [title |-> <<>>, filename |-> <<>>, level |-> 0]
NoFiles == <<>>   \* the function with the empty domain

\* doc.paragraphs: the paragraphs of the body, in order
Paragraphs(d) == SelectSeq(d.body, LAMBDA n : n.kind = "p")

(***************************************************************************)
(* Files of the output directory.                                          *)
(***************************************************************************)
ContentMd == <<"c", "o", "n", "t", "e", "n", "t">> \o MdExt
SummaryMd == <<"S", "U", "M", "M", "A", "R", "Y">> \o MdExt
ReadmeMd == <<"R", "E", "A", "D", "M", "E">> \o MdExt
BookJson == <<"b", "o", "o", "k", ".", "j", "s", "o", "n">>
StaleFile == <<"o", "l", "d">> \o MdExt
PlaceholderTitle == <<"u6587", "u6863", "u5185", "u5bb9">>

\* open(path, 'w').write(content)
WriteFile(fs, path, content) ==
    [p \in DOMAIN fs \cup {path} |-> IF p = path THEN content ELSE fs[p]]

\* the section files: what the output root holds besides the config files
\* and the assets
SectionFiles(fs) ==
    {p \in DOMAIN fs : p \notin {SummaryMd, ReadmeMd, BookJson}
                       /\ ~IsPrefix(AssetsDir \o <<"/">>, p)}

(***************************************************************************)
(* _extract_all_images                                                     *)
(***************************************************************************)
ImagePrefix == <<"i", "m", "a", "g", "e", "/">>
Png == <<"p", "n", "g">>
AllowedFormats == {Png, <<"j", "p", "g">>, <<"j", "p", "e", "g">>, <<"g", "i", "f">>,
                   <<"b", "m", "p">>}

\* _get_image_extension: fmt is the lower-cased format PIL reports, <<>> when
\* the blob cannot be opened
GetImageExtension(fmt) == IF fmt \in AllowedFormats THEN fmt ELSE Png

ImageFilename(counter, ext) ==
    <<"i", "m", "a", "g", "e", "_">> \o Pad3(counter) \o <<".">> \o ext

\* a mutant: the counter is advanced outside the try, for a failed image too
ExtractImageCountsFailures ==
    /\ pc = "extract"
    /\ idx <= Len(doc.parts)
    /\ LET part == doc.parts[idx]
           name == ImageFilename(image_counter, GetImageExtension(part.fmt))
       IN  IF IsPrefix(ImagePrefix, part.content_type)
           THEN /\ image_counter' = image_counter + 1
                /\ \E ok \in BOOLEAN :
                     IF ok
                     THEN /\ files' = WriteFile(files, AssetsDir \o <<"/">> \o name,
                                                part.fmt)
                          /\ image_map' = [r \in DOMAIN image_map \cup {part.rid} |->
                                              IF r = part.rid THEN name ELSE image_map[r]]
                     ELSE UNCHANGED <<files, image_map>>
           ELSE UNCHANGED <<files, image_map, image_counter>>
    /\ idx' = idx + 1
    /\ UNCHANGED <<pc, rc, out_exists, doc, max_toc_level, toc_items, current_chapter,
                   current_toc_item, current_content, saves, call_in, call_out>>

\* a mutant: no try/except around one image, the exception ends convert()
ExtractImageAborts ==
    /\ pc = "extract"
    /\ idx <= Len(doc.parts)
    /\ LET part == doc.parts[idx]
           name == ImageFilename(image_counter, GetImageExtension(part.fmt))
       IN  IF IsPrefix(ImagePrefix, part.content_type)
           THEN \E ok \in BOOLEAN :
                  IF ok
                  THEN /\ files' = WriteFile(files, AssetsDir \o <<"/">> \o name, part.fmt)
                       /\ image_map' = [r \in DOMAIN image_map \cup {part.rid} |->
                                           IF r = part.rid THEN name ELSE image_map[r]]
                       /\ image_counter' = image_counter + 1
                       /\ idx' = idx + 1
                       /\ UNCHANGED <<pc, rc>>
                  ELSE /\ pc' = "exit"
                       /\ rc' = 1
                       /\ UNCHANGED <<files, image_map, image_counter, idx>>
           ELSE /\ idx' = idx + 1
                /\ UNCHANGED <<files, image_map, image_counter, pc, rc>>
    /\ UNCHANGED <<out_exists, doc, max_toc_level, toc_items, current_chapter,
                   current_toc_item, current_content, saves, call_in, call_out>>

\* one iteration of the loop over related_parts; ok: nothing raised in the try
ExtractImage ==
    /\ pc = "extract"
    /\ idx <= Len(doc.parts)
    /\ LET part == doc.parts[idx]
           name == ImageFilename(image_counter, GetImageExtension(part.fmt))
       IN  IF IsPrefix(ImagePrefix, part.content_type)
           THEN \E ok \in BOOLEAN :
                  IF ok
                  THEN /\ files' = WriteFile(files, AssetsDir \o <<"/">> \o name, part.fmt)
                       /\ image_map' = [r \in DOMAIN image_map \cup {part.rid} |->
                                           IF r = part.rid THEN name ELSE image_map[r]]
                       /\ image_counter' = image_counter + 1
                  ELSE UNCHANGED <<files, image_map, image_counter>>
           ELSE UNCHANGED <<files, image_map, image_counter>>
    /\ idx' = idx + 1
    /\ UNCHANGED <<pc, rc, out_exists, doc, max_toc_level, toc_items, current_chapter,
                   current_toc_item, current_content, saves, call_in, call_out>>

\* a mutant: the TOC build may begin while image parts are left
ExtractFinishEarly ==
    /\ pc = "extract"
    /\ idx >= 1
    /\ pc' = "parse"
    /\ idx' = 1
    /\ UNCHANGED <<rc, out_exists, files, doc, max_toc_level, toc_items, current_chapter,
                   image_counter, image_map, current_toc_item, current_content, saves,
                   call_in, call_out>>

\* the loop is over: convert() goes on to _parse_document_structure
ExtractFinish ==
    /\ pc = "extract"
    /\ idx > Len(doc.parts)
    /\ pc' = "parse"
    /\ idx' = 1
    /\ UNCHANGED <<rc, out_exists, files, doc, max_toc_level, toc_items, current_chapter,
                   image_counter, image_map, current_toc_item, current_content, saves,
                   call_in, call_out>>

(***************************************************************************)
(* _parse_document_structure                                               *)
(***************************************************************************)
TocItem(title, filename, level) ==
    [title |-> title, filename |-> filename, level |-> level]

\* a mutant: the depth test is dropped
QualifiesAny(para, max) ==
    /\ IsHeading(para)
    /\ Strip(ParaText(para), Whitespace) # <<>>

\* a mutant: the test of the trimmed title is dropped
QualifiesBlankTitle(para, max) ==
    /\ IsHeading(para)
    /\ ExtractHeadingLevel(para.style) <= max

\* the heading gets a TOC entry
Qualifies(para, max) ==
    /\ IsHeading(para)
    /\ ExtractHeadingLevel(para.style) <= max
    /\ Strip(ParaText(para), Whitespace) # <<>>

\* one iteration of the loop over doc.paragraphs
ParseParagraph ==
    /\ pc = "parse"
    /\ idx <= Len(Paragraphs(doc))
    /\ LET para == Paragraphs(doc)[idx]
           title == Strip(ParaText(para), Whitespace)
           gen == GenerateFilename(title, current_chapter)
       IN  IF Qualifies(para, max_toc_level)
           THEN /\ toc_items' = Append(toc_items,
                        TocItem(title, gen.filename, ExtractHeadingLevel(para.style)))
                /\ current_chapter' = gen.chapter
           ELSE UNCHANGED <<toc_items, current_chapter>>
    /\ idx' = idx + 1
    /\ UNCHANGED <<pc, rc, out_exists, files, doc, max_toc_level, image_counter,
                   image_map, current_toc_item, current_content, saves, call_in, call_out>>

\* after the loop: the default chapter when no heading was found
ParseFinish ==
    /\ pc = "parse"
    /\ idx > Len(Paragraphs(doc))
    /\ toc_items' = IF toc_items = <<>>
                    THEN <<TocItem(PlaceholderTitle, ContentMd, 1)>>
                    ELSE toc_items
    /\ pc' = "generate"
    /\ idx' = 1
    /\ UNCHANGED <<rc, out_exists, files, doc, max_toc_level, current_chapter,
                   image_counter, image_map, current_toc_item, current_content, saves,
                   call_in, call_out>>

(***************************************************************************)
(* _generate_gitbook_files, _generate_chapter_files                        *)
(***************************************************************************)
\* _convert_document_to_markdown
ConvertDocumentToMarkdown(d, imap) ==
    Flatten([i \in 1..Len(d.body) |-> RenderNode(d.body[i], imap)])

\* title in title_to_toc
InTitleToToc(items, title) == \E i \in 1..Len(items) : items[i].title = title

\* title_to_toc[title]: the dict keeps the last item stored under a title
TitleToToc(items, title) ==
    items[CHOOSE i \in 1..Len(items) :
            /\ items[i].title = title
            /\ \A j \in 1..Len(items) : items[j].title = title => j <= i]

\* the dispatch of _generate_gitbook_files; with a TOC, the set-up of
\* _generate_chapter_files
GenerateGitbookFiles ==
    /\ pc = "generate"
    /\ IF toc_items = <<>>
       THEN /\ files' = WriteFile(files, ContentMd, ConvertDocumentToMarkdown(doc, image_map))
            /\ pc' = "config"
       ELSE /\ pc' = "chapters"
            /\ UNCHANGED files
    /\ current_toc_item' = NoItem
    /\ current_content' = <<>>
    /\ idx' = 1
    /\ UNCHANGED <<rc, out_exists, doc, max_toc_level, toc_items, current_chapter,
                   image_counter, image_map, saves, call_in, call_out>>

\* a mutant: the heading line of a chapter carries one '#' per level
ChapterHeadingLeveled(title, level) ==
    Rep(<<"#">>, level) \o <<" ">> \o title \o <<NL, NL>>

\* f"# {title}\n\n", the first fragment of a chapter
ChapterHeading(title, level) == <<"#", " ">> \o title \o <<NL, NL>>

\* the test that starts a new chapter
OpensChapter(node, items, max) ==
    /\ node.kind = "p"
    /\ IsHeading(node)
    /\ ExtractHeadingLevel(node.style) <= max
    /\ Strip(ParaText(node), Whitespace) # <<>>
    /\ InTitleToToc(items, Strip(ParaText(node), Whitespace))

\* _save_chapter_content_by_item
SaveChapterContentByItem(fs, item, content) ==
    WriteFile(fs, item.filename, Flatten(content))

\* a mutant: rendering a node takes a fresh image number, as the unused
\* _extract_image_from_run would
ChapterElementCountsImages ==
    /\ pc = "chapters"
    /\ idx <= Len(doc.body)
    /\ LET node == doc.body[idx]
           title == Strip(ParaText(node), Whitespace)
           flush == current_toc_item # NoItem /\ current_content # <<>>
       IN  IF OpensChapter(node, toc_items, max_toc_level)
           THEN /\ files' = IF flush
                            THEN SaveChapterContentByItem(files, current_toc_item,
                                                          current_content)
                            ELSE files
                /\ saves' = IF flush
                            THEN Append(saves, [item |-> current_toc_item,
                                                content |-> Flatten(current_content)])
                            ELSE saves
                /\ current_toc_item' = TitleToToc(toc_items, title)
                /\ current_content' =
                       <<ChapterHeading(title, ExtractHeadingLevel(node.style))>>
                /\ UNCHANGED image_counter
           ELSE /\ current_content' = Append(current_content, RenderNode(node, image_map))
                /\ image_counter' = image_counter + 1
                /\ UNCHANGED <<files, saves, current_toc_item>>
    /\ idx' = idx + 1
    /\ UNCHANGED <<pc, rc, out_exists, doc, max_toc_level, toc_items, current_chapter,
                   image_map, call_in, call_out>>

\* one iteration of the loop over doc.element.body
ChapterElement ==
    /\ pc = "chapters"
    /\ idx <= Len(doc.body)
    /\ LET node == doc.body[idx]
           title == Strip(ParaText(node), Whitespace)
           flush == current_toc_item # NoItem /\ current_content # <<>>
       IN  IF OpensChapter(node, toc_items, max_toc_level)
           THEN /\ files' = IF flush
                            THEN SaveChapterContentByItem(files, current_toc_item,
                                                          current_content)
                            ELSE files
                /\ saves' = IF flush
                            THEN Append(saves, [item |-> current_toc_item,
                                                content |-> Flatten(current_content)])
                            ELSE saves
                /\ current_toc_item' = TitleToToc(toc_items, title)
                /\ current_content' =
                       <<ChapterHeading(title, ExtractHeadingLevel(node.style))>>
           ELSE /\ current_content' = Append(current_content, RenderNode(node, image_map))
                /\ UNCHANGED <<files, saves, current_toc_item>>
    /\ idx' = idx + 1
    /\ UNCHANGED <<pc, rc, out_exists, doc, max_toc_level, toc_items, current_chapter,
                   image_counter, image_map, call_in, call_out>>

\* after the loop: the last chapter is saved
ChapterFinish ==
    /\ pc = "chapters"
    /\ idx > Len(doc.body)
    /\ LET flush == current_toc_item # NoItem /\ current_content # <<>>
       IN  /\ files' = IF flush
                        THEN SaveChapterContentByItem(files, current_toc_item,
                                                      current_content)
                        ELSE files
           /\ saves' = IF flush
                        THEN Append(saves, [item |-> current_toc_item,
                                            content |-> Flatten(current_content)])
                        ELSE saves
    /\ pc' = "config"
    /\ UNCHANGED <<rc, out_exists, doc, max_toc_level, toc_items, current_chapter,
                   image_counter, image_map, idx, current_toc_item, current_content,
                   call_in, call_out>>

(***************************************************************************)
(* _generate_config_files                                                  *)
(***************************************************************************)
SummaryHead == <<"#", " ", "S", "u", "m", "m", "a", "r", "y", NL, NL>>

\* a mutant: every bullet at the left margin
SummaryLineFlat(item) ==
    <<"*", " ", "[">> \o item.title \o <<"]", "(">> \o item.filename \o <<")", NL>>

\* f"{indent}* [{item.title}]({item.filename})\n"
SummaryLine(item) ==
    Rep(<<" ", " ">>, item.level - 1) \o <<"*", " ", "[">> \o item.title \o <<"]", "(">>
        \o item.filename \o <<")", NL>>

SummaryContent(items) ==
    IF items # <<>>
    THEN SummaryHead \o Flatten([i \in 1..Len(items) |-> SummaryLine(items[i])])
    ELSE SummaryHead \o <<"*", " ", "[">> \o PlaceholderTitle \o <<"]", "(">>
             \o ContentMd \o <<")", NL>>

\* book.json and README.md depend on the configuration and the clock only
BookJsonContent == <<"{", "}">>
ReadmeContent == <<"#">>

\* _generate_config_files; convert() returns and main() returns 0
GenerateConfigFiles ==
    /\ pc = "config"
    /\ files' = WriteFile(WriteFile(WriteFile(files, BookJson, BookJsonContent),
                                    SummaryMd, SummaryContent(toc_items)),
                          ReadmeMd, ReadmeContent)
    /\ pc' = "exit"
    /\ rc' = 0
    /\ UNCHANGED <<out_exists, doc, max_toc_level, toc_items, current_chapter,
                   image_counter, image_map, idx, current_toc_item, current_content,
                   saves, call_in, call_out>>

(***************************************************************************)
(* main, convert                                                           *)
(***************************************************************************)
\* main() up to converter.convert(): os.path.exists(args.input_file)
Main ==
    /\ pc = "main"
    /\ \E exists \in BOOLEAN :
         IF exists
         THEN pc' = "create_dirs" /\ rc' = rc
         ELSE pc' = "exit" /\ rc' = 1
    /\ UNCHANGED <<out_exists, files, doc, max_toc_level, toc_items, current_chapter,
                   image_counter, image_map, idx, current_toc_item, current_content,
                   saves, call_in, call_out>>

\* _create_output_directories: rmtree, then mkdir of the root and the assets
CreateOutputDirectories ==
    /\ pc = "create_dirs"
    /\ files' = NoFiles
    /\ out_exists' = TRUE
    /\ pc' = "load"
    /\ UNCHANGED <<rc, doc, max_toc_level, toc_items, current_chapter, image_counter,
                   image_map, idx, current_toc_item, current_content, saves, call_in,
                   call_out>>

\* Document(word_file_path) returns the document
LoadDocument ==
    /\ pc = "load"
    /\ \E d \in Docs : doc' = d
    /\ pc' = "extract"
    /\ idx' = 1
    /\ UNCHANGED <<rc, out_exists, files, max_toc_level, toc_items, current_chapter,
                   image_counter, image_map, current_toc_item, current_content, saves,
                   call_in, call_out>>

\* Document(word_file_path) raises: main() prints the error and returns 1
LoadFails ==
    /\ pc = "load"
    /\ pc' = "exit"
    /\ rc' = 1
    /\ UNCHANGED <<out_exists, files, doc, max_toc_level, toc_items, current_chapter,
                   image_counter, image_map, idx, current_toc_item, current_content,
                   saves, call_in, call_out>>

\* the output directory before the run: absent, or left by an earlier run
InitialFiles == [p \in {StaleFile} |-> <<"x">>]

Init ==
    /\ pc = "main"
    /\ rc = -1
    /\ out_exists \in BOOLEAN
    /\ files = IF out_exists THEN InitialFiles ELSE NoFiles
    /\ doc = NoDoc
    /\ max_toc_level \in 1..MaxTocLevel
    /\ toc_items = <<>>
    /\ current_chapter = 1
    /\ image_counter = 1
    /\ image_map = <<>>
    /\ idx = 1
    /\ current_toc_item = NoItem
    /\ current_content = <<>>
    /\ saves = <<>>
    /\ call_in = <<>>
    /\ call_out = <<>>

Next ==
    \/ Main
    \/ CreateOutputDirectories
    \/ LoadDocument
    \/ LoadFails
    \/ ExtractImage
    \/ ExtractFinish
    \/ ParseParagraph
    \/ ParseFinish
    \/ GenerateGitbookFiles
    \/ ChapterElement
    \/ ChapterFinish
    \/ GenerateConfigFiles

Spec == Init /\ [][Next]_vars

(***************************************************************************)
(* Properties of the conversion run (specification Spec).                  *)
(***************************************************************************)
Finished == pc = "exit" /\ rc = 0

\* the body positions whose node is a heading of depth at most max
ShallowHeadings(d, max) ==
    {i \in 1..Len(d.body) :
        /\ d.body[i].kind = "p"
        /\ IsHeading(d.body[i])
        /\ ExtractHeadingLevel(d.body[i].style) <= max}

\* the body positions whose node is a heading deeper than max
DeepHeadings(d, max) ==
    {i \in 1..Len(d.body) :
        /\ d.body[i].kind = "p"
        /\ IsHeading(d.body[i])
        /\ ExtractHeadingLevel(d.body[i].style) > max}

\* C1: when the (non-empty) document has no heading at or below the maximum
\* depth, the finished conversion has written exactly one section file,
\* content.md, holding the rendering of every body node in document order.
C1_SingleContentFile ==
    (Finished /\ doc.body # <<>> /\ ShallowHeadings(doc, max_toc_level) = {})
        => /\ SectionFiles(files) = {ContentMd}
           /\ files[ContentMd] = ConvertDocumentToMarkdown(doc, image_map)

\* the positions that open a chapter, and the nodes of the section that
\* starts at position i
Openers(d, items, max) ==
    {i \in 1..Len(d.body) : OpensChapter(d.body[i], items, max)}

SectionOf(d, items, max, i) ==
    {k \in (i + 1)..Len(d.body) :
        \A m \in (i + 1)..k : m \notin Openers(d, items, max)}

HeadingTitle(node) == Strip(ParaText(node), Whitespace)

\* the TOC entries of one title all name the same file
OneFileForTitle(items, title) ==
    \A a, b \in 1..Len(items) :
        (items[a].title = title /\ items[b].title = title)
            => items[a].filename = items[b].filename

\* C2: when two qualifying headings share a title (and so one file name), the
\* finished conversion holds that file, and the rendering of every body node
\* of both sections is in it.
C2_DuplicateTitlesConcatenated ==
    Finished =>
        \A i, j \in Openers(doc, toc_items, max_toc_level) :
            (/\ i < j
             /\ HeadingTitle(doc.body[i]) = HeadingTitle(doc.body[j])
             /\ OneFileForTitle(toc_items, HeadingTitle(doc.body[i])))
            => LET f == TitleToToc(toc_items, HeadingTitle(doc.body[i])).filename
               IN  /\ f \in DOMAIN files
                   /\ \A k \in SectionOf(doc, toc_items, max_toc_level, i)
                            \cup SectionOf(doc, toc_items, max_toc_level, j) :
                        Contains(files[f], RenderNode(doc.body[k], image_map))

LeveledHead(item) == Rep(<<"#">>, item.level) \o <<" ">> \o item.title \o <<NL, NL>>
FlatHead(item) == <<"#", " ">> \o item.title \o <<NL, NL>>
HeadLine(item, leveled) == IF leveled THEN LeveledHead(item) ELSE FlatHead(item)

\* the buffer that is open, every chapter saved and every chapter file start
\* with the heading line of the owning TOC entry
BuffersStartWith(leveled) ==
    /\ (pc = "chapters" /\ current_toc_item # NoItem)
           => /\ current_content # <<>>
              /\ Head(current_content) = HeadLine(current_toc_item, leveled)
    /\ \A n \in 1..Len(saves) :
           IsPrefix(HeadLine(saves[n].item, leveled), saves[n].content)
    /\ Finished => \A i \in 1..Len(toc_items) :
                       toc_items[i].filename \in DOMAIN files
                           => IsPrefix(HeadLine(toc_items[i], leveled),
                                       files[toc_items[i].filename])

\* C3 (as claimed): a section buffer opened for a heading of depth d starts
\* with d '#' characters, a space, the title and a blank line.
C3_LevelMatchingHeadingLine == BuffersStartWith(TRUE)

\* C3 (amended): a section buffer opened for a heading of any depth starts with
\* one '#' character, a space, the title and a blank line; so does the file
\* written from it.
C3_SingleHashHeadingLine == BuffersStartWith(FALSE)

C3_Witness ==
    /\ Finished
    /\ \E n \in 1..Len(saves) :
         /\ saves[n].item.level = 2
         /\ saves[n].item.filename \in DOMAIN files
         /\ IsPrefix(<<"#", " ", "S", "e", "t", "u", "p", NL, NL>>,
                     files[saves[n].item.filename])

ScenarioBody == <<HIntro, HSetup, PDone>>

ScenarioFiles(intro, setup) ==
    (Finished /\ doc.body = ScenarioBody /\ max_toc_level = 2)
        => /\ SectionFiles(files) = {intro, setup}
           /\ Contains(files[setup], TDone)
           /\ ~Contains(files[intro], TDone)

\* C4 (as claimed): [Heading1 "Intro", Heading2 "Setup", paragraph "done"] with
\* max_toc_level = 2 gives exactly the section files intro.md and setup.md,
\* with "done" in setup.md and not in intro.md.
C4_ScenarioLowerCaseNames ==
    ScenarioFiles(<<"i", "n", "t", "r", "o">> \o MdExt, <<"s", "e", "t", "u", "p">> \o MdExt)

\* C4 (amended): the two section files keep the case of the titles: they are
\* Intro.md and Setup.md, with "done" in Setup.md and not in Intro.md.
C4_ScenarioTitleCaseNames == ScenarioFiles(TIntro \o MdExt, TSetup \o MdExt)

C4_Witness ==
    /\ Finished
    /\ doc.body = ScenarioBody
    /\ max_toc_level = 2
    /\ Len(saves) = 2

\* C5: a heading deeper than the maximum adds no TOC entry, opens no buffer,
\* writes no file, and its rendering ('#' times the depth, the text) is
\* appended to the current content.
C5_DeepHeadingFolded ==
    [][/\ (/\ pc = "parse"
           /\ idx <= Len(Paragraphs(doc))
           /\ IsHeading(Paragraphs(doc)[idx])
           /\ ExtractHeadingLevel(Paragraphs(doc)[idx].style) > max_toc_level)
          => toc_items' = toc_items
       /\ (pc = "chapters" /\ idx \in DeepHeadings(doc, max_toc_level))
          => /\ current_toc_item' = current_toc_item
             /\ files' = files
             /\ saves' = saves
             /\ current_content' =
                  Append(current_content,
                         IF HeadingTitle(doc.body[idx]) # <<>>
                         THEN Rep(<<"#">>, ExtractHeadingLevel(doc.body[idx].style))
                                  \o <<" ">> \o ParaText(doc.body[idx]) \o <<NL, NL>>
                         ELSE ConvertParagraphToMarkdown(doc.body[idx], image_map))
       /\ (pc \in {"generate", "chapters", "config", "exit"} /\ doc # NoDoc)
          => \A i \in 1..Len(toc_items) : toc_items[i].level <= max_toc_level
      ]_vars

C5_Witness ==
    /\ pc = "chapters"
    /\ idx > 1
    /\ (idx - 1) \in DeepHeadings(doc, max_toc_level)
    /\ current_toc_item # NoItem
    /\ current_content[Len(current_content)]
           = <<"#", "#", " ", "S", "e", "t", "u", "p", NL, NL>>
    /\ Len(toc_items) = 1

\* C6: when main() fails, the output directory is as it was before the run:
\* absent, or holding what the earlier run left.
C6_FailureLeavesOutputUntouched ==
    (pc = "exit" /\ rc = 1)
        => \/ ~out_exists /\ files = NoFiles
           \/ out_exists /\ files = InitialFiles

(***************************************************************************)
(* Direct calls of the helpers: the arguments are drawn from bounded sets. *)
(***************************************************************************)
\* the converter's fields while a helper is called on its own
Idle ==
    /\ rc = -1
    /\ out_exists = FALSE
    /\ files = NoFiles
    /\ doc = NoDoc
    /\ max_toc_level = 1
    /\ toc_items = <<>>
    /\ image_counter = 1
    /\ current_toc_item = NoItem
    /\ current_content = <<>>
    /\ saves = <<>>
    /\ call_in = <<>>
    /\ call_out = <<>>

TitleAlphabet == {"a", "!", " ", "-"}

\* the titles _parse_document_structure can pass: stripped and not empty
ShortTitles ==
    {t \in SeqsUpTo(TitleAlphabet, MaxTitleLen) : t # <<>> /\ Strip(t, Whitespace) = t}

LongTitles ==
    {Rep(<<"a">>, MaxSlugLen - 1), Rep(<<"a">>, MaxSlugLen), Rep(<<"a">>, MaxSlugLen + 1),
     Rep(<<"a", "-">>, MaxSlugLen \div 2 + 1) \o <<"a">>,
     Rep(<<"!">>, MaxSlugLen + 1)}

Titles == ShortTitles \cup LongTitles

InitFilename ==
    /\ Idle
    /\ pc = "call_filename"
    /\ idx = 0
    /\ current_chapter = 1
    /\ image_map = <<>>

\* self._generate_filename(title, level)
CallGenerateFilename ==
    /\ pc = "call_filename"
    /\ idx < MaxCalls
    /\ \E title \in Titles :
         LET gen == GenerateFilename(title, current_chapter)
         IN  /\ call_in' = [title |-> title, chapter |-> current_chapter]
             /\ call_out' = gen.filename
             /\ current_chapter' = gen.chapter
    /\ idx' = idx + 1
    /\ UNCHANGED <<pc, rc, out_exists, files, doc, max_toc_level, toc_items,
                   image_counter, image_map, current_toc_item, current_content, saves>>

SpecFilename == InitFilename /\ [][CallGenerateFilename]_vars

\* the part of a file name before ".md"
Stem(filename) == SubSeq(filename, 1, Len(filename) - Len(MdExt))

OnlyInvalidChars(title) ==
    \A i \in 1..Len(title) : title[i] \notin WordChars \cup Whitespace \cup {"-"}

\* C8: the name returned for a non-empty title is <stem>.md with a stem of 1
\* to 50 characters; a title of invalid characters only, or one whose cleaned
\* slug has fewer than 2 characters, gets chapter-<n>.md with n the counter
\* before the call, and the counter is then n + 1.
C8_FilenameShape ==
    (pc = "call_filename" /\ idx > 0)
        => /\ Len(call_out) > Len(MdExt)
           /\ SubSeq(call_out, Len(call_out) - Len(MdExt) + 1, Len(call_out)) = MdExt
           /\ Len(Stem(call_out)) >= 1
           /\ Len(Stem(call_out)) <= 50
           /\ (OnlyInvalidChars(call_in.title) \/ Len(CleanTitle(call_in.title)) < 2)
                => /\ call_out = ChapterPrefix \o Digits(call_in.chapter) \o MdExt
                   /\ current_chapter = call_in.chapter + 1

C8_Witness ==
    /\ pc = "call_filename"
    /\ idx = 2
    /\ call_in = [title |-> <<"!", "!", "!">>, chapter |-> 2]
    /\ call_out = ChapterPrefix \o <<"2">> \o MdExt
    /\ current_chapter = 3

(***************************************************************************)
RunTexts == {<<"x">>, <<"y">>}

FormatRuns ==
    {[Run(t) EXCEPT !.bold = b, !.italic = i, !.underline = u] :
        t \in RunTexts, b \in BOOLEAN, i \in BOOLEAN, u \in BOOLEAN}

InitFormat ==
    /\ Idle
    /\ pc = "call_format"
    /\ idx = 0
    /\ current_chapter = 1
    /\ image_map = <<>>

\* self._process_paragraph_formatting(para)
CallProcessParagraphFormatting ==
    /\ pc = "call_format"
    /\ idx = 0
    /\ \E runs \in SeqsUpTo(FormatRuns, MaxRuns) :
         LET para == Para(StyleNormal, runs)
         IN  /\ call_in' = para
             /\ call_out' = ProcessParagraphFormatting(para)
    /\ idx' = 1
    /\ UNCHANGED <<pc, rc, out_exists, files, doc, max_toc_level, toc_items,
                   current_chapter, image_counter, image_map, current_toc_item,
                   current_content, saves>>

SpecFormat == InitFormat /\ [][CallProcessParagraphFormatting]_vars

\* the rendering the claim gives for each combination of the flags
Rendered(run) ==
    CASE ~run.bold /\ ~run.italic /\ ~run.underline -> run.text
      [] run.bold /\ ~run.italic /\ ~run.underline -> <<"*", "*">> \o run.text \o <<"*", "*">>
      [] ~run.bold /\ run.italic /\ ~run.underline -> <<"*">> \o run.text \o <<"*">>
      [] run.bold /\ run.italic /\ ~run.underline ->
            <<"*", "*", "*">> \o run.text \o <<"*", "*", "*">>
      [] ~run.bold /\ ~run.italic /\ run.underline ->
            <<"<", "u", ">">> \o run.text \o <<"<", "/", "u", ">">>
      [] run.bold /\ ~run.italic /\ run.underline ->
            <<"<", "u", ">", "*", "*">> \o run.text \o <<"*", "*", "<", "/", "u", ">">>
      [] ~run.bold /\ run.italic /\ run.underline ->
            <<"<", "u", ">", "*">> \o run.text \o <<"*", "<", "/", "u", ">">>
      [] run.bold /\ run.italic /\ run.underline ->
            <<"<", "u", ">", "*", "*", "*">> \o run.text
                \o <<"*", "*", "*", "<", "/", "u", ">">>

\* C10: the paragraph renders as its runs' renderings in run order, each run
\* wrapped bold innermost, then italic, then underline outermost; a run with
\* no flag is unchanged.
C10_WrapperOrder ==
    (pc = "call_format" /\ idx = 1)
        => call_out = Flatten([k \in 1..Len(call_in.runs) |-> Rendered(call_in.runs[k])])

C10_Witness ==
    /\ pc = "call_format"
    /\ idx = 1
    /\ Len(call_in.runs) = 2
    /\ call_in.runs[1].bold /\ call_in.runs[1].italic /\ call_in.runs[1].underline
    /\ ~call_in.runs[2].bold /\ ~call_in.runs[2].italic /\ ~call_in.runs[2].underline
    /\ call_out = <<"<", "u", ">", "*", "*", "*", "x", "*", "*", "*", "<", "/", "u", ">",
                    "y">>

(***************************************************************************)
\* the asset table after an extraction that recorded rId1 and rId3
CallImageMap ==
    [r \in {Rid1, Rid3} |->
        IF r = Rid1 THEN ImageFilename(1, <<"j", "p", "e", "g">>)
        ELSE ImageFilename(2, Png)]

DrawingChoices == {<<>>, <<<<>>>>} \cup {<<<<r>>>> : r \in {Rid1, RidX}}
BlipChoices == {<<>>} \cup {<<r>> : r \in {Rid1, Rid3, NoRid}}
PictChoices == {<<>>} \cup {<<<<r>>>> : r \in {Rid1, Rid3}}

ImageRuns ==
    {[Run(<<>>) EXCEPT !.drawings = d, !.blips = b, !.picts = v] :
        d \in DrawingChoices, b \in BlipChoices, v \in PictChoices}

InitImages ==
    /\ Idle
    /\ pc = "call_images"
    /\ idx = 0
    /\ current_chapter = 1
    /\ image_map = CallImageMap

\* self._process_images_in_paragraph(para, text) on a paragraph that is no heading
CallProcessImagesInParagraph ==
    /\ pc = "call_images"
    /\ idx = 0
    /\ \E runs \in SeqsUpTo(ImageRuns, MaxRuns) :
         LET para == Para(StyleNormal, runs)
         IN  /\ call_in' = [para |-> para, text |-> TDone]
             /\ call_out' = ProcessImagesInParagraph(para, TDone, image_map)
    /\ idx' = 1
    /\ UNCHANGED <<pc, rc, out_exists, files, doc, max_toc_level, toc_items,
                   current_chapter, image_counter, image_map, current_toc_item,
                   current_content, saves>>

SpecImages == InitImages /\ [][CallProcessImagesInParagraph]_vars

RECURSIVE Occurrences(_, _)
\* how many times t occurs in s
Occurrences(s, t) ==
    IF Len(s) < Len(t) THEN 0
    ELSE (IF IsPrefix(t, s) THEN 1 ELSE 0) + Occurrences(Tail(s), t)

SeqSet(q) == {q[k] : k \in 1..Len(q)}

DrawingIds(run) == SeqSet(Flatten(run.drawings))
BlipIds(run) == SeqSet(run.blips)
PictIds(run) == SeqSet(Flatten(run.picts))

\* every relationship id a run of the paragraph refers to, through any shape
AnyShapeIds(para) ==
    UNION {DrawingIds(r) \cup BlipIds(r) \cup PictIds(r) : r \in SeqSet(para.runs)}

\* the same, leaving out the bare a:blip of a run that has a w:drawing
ReadShapeIds(para) ==
    UNION {DrawingIds(r) \cup PictIds(r)
               \cup (IF r.drawings = <<>> THEN BlipIds(r) ELSE {})
           : r \in SeqSet(para.runs)}

\* the result is the text followed by exactly one image tag per mapped id of
\* ids, and by nothing else
OneTagPerMappedId(ids) ==
    LET mapped == {r \in ids : r \in DOMAIN image_map}
    IN  /\ IsPrefix(call_in.text, call_out)
        /\ \A r \in mapped : Occurrences(call_out, ImageTag(image_map[r])) = 1
        /\ Occurrences(call_out, <<"!", "[">>) = Cardinality(mapped)

\* C7 (as claimed): one image tag per distinct relationship id that any run
\* refers to through any of the three shapes and that the asset table maps;
\* no tag for an unmapped id.
C7_OneTagPerReferencedId ==
    (pc = "call_images" /\ idx = 1) => OneTagPerMappedId(AnyShapeIds(call_in.para))

\* C7 (amended): one image tag per distinct mapped relationship id referred to
\* through a drawing wrapper, a legacy pict, or a bare blip of a run that has
\* no drawing wrapper; an id referred to several times yields one tag, an
\* unmapped id none.
C7_OneTagPerReadId ==
    (pc = "call_images" /\ idx = 1) => OneTagPerMappedId(ReadShapeIds(call_in.para))

C7_Witness ==
    /\ pc = "call_images"
    /\ idx = 1
    /\ Len(call_in.para.runs) = 2
    /\ call_in.para.runs[1].drawings = <<<<RidX>>>>
    /\ call_in.para.runs[1].picts = <<<<Rid1>>>>
    /\ call_in.para.runs[2].drawings = <<>>
    /\ call_in.para.runs[2].blips = <<Rid1>>
    /\ call_in.para.runs[2].picts = <<<<Rid3>>>>
    /\ call_out = TDone \o ImageTag(CallImageMap[Rid1]) \o ImageTag(CallImageMap[Rid3])

(***************************************************************************)
CellTexts == {<<"A">>, <<"1">>, <<"A", NL, "1">>}

TableRows == [1..1 -> CellTexts] \cup [1..2 -> CellTexts]

InitTable ==
    /\ Idle
    /\ pc = "call_table"
    /\ idx = 0
    /\ current_chapter = 1
    /\ image_map = <<>>

\* self._convert_table_to_markdown(table)
CallConvertTableToMarkdown ==
    /\ pc = "call_table"
    /\ idx = 0
    /\ \E rows \in SeqsUpTo(TableRows, MaxRows) :
         /\ call_in' = Table(rows)
         /\ call_out' = ConvertTableToMarkdown(Table(rows))
    /\ idx' = 1
    /\ UNCHANGED <<pc, rc, out_exists, files, doc, max_toc_level, toc_items,
                   current_chapter, image_counter, image_map, current_toc_item,
                   current_content, saves>>

SpecTable == InitTable /\ [][CallConvertTableToMarkdown]_vars

RECURSIVE Split(_, _)
\* str.split(sep) for a one-character sep
Split(s, sep) ==
    IF \A k \in 1..Len(s) : s[k] # sep THEN <<s>>
    ELSE LET k == CHOOSE m \in 1..Len(s) : s[m] = sep /\ \A n \in 1..(m - 1) : s[n] # sep
         IN  <<SubSeq(s, 1, k - 1)>> \o Split(SubSeq(s, k + 1, Len(s)), sep)

\* C9: a table of r >= 1 rows gives exactly r + 1 lines (then a blank line):
\* the header row, a separator of as many --- cells as the header has cells,
\* one line per data row in row order; a table with no rows gives nothing.
C9_TableLines ==
    (pc = "call_table" /\ idx = 1)
        => IF call_in.rows = <<>> THEN call_out = <<>>
           ELSE LET r == Len(call_in.rows)
                    lines == Split(call_out, NL)
                IN  /\ Len(lines) = r + 3
                    /\ lines[r + 2] = <<>>
                    /\ lines[r + 3] = <<>>
                    /\ lines[1] = PipeRow(HeaderCells(call_in.rows[1]))
                    /\ lines[2] = PipeRow([k \in 1..Len(call_in.rows[1]) |-> Dashes])
                    /\ \A k \in 2..r : lines[k + 1] = PipeRow(DataCells(call_in.rows[k]))

(***************************************************************************)
(* Further properties of the conversion run (specification Spec).          *)
(***************************************************************************)
\* C11: after a finished conversion there is one section file per TOC entry:
\* as many section files in the output root as TOC entries, and the file
\* named by each entry exists and holds the buffer saved for that entry.
C11_OneFilePerTocEntry ==
    Finished =>
        /\ Cardinality(SectionFiles(files)) = Len(toc_items)
        /\ \A i \in 1..Len(toc_items) :
               /\ toc_items[i].filename \in DOMAIN files
               /\ \E n \in 1..Len(saves) :
                      /\ saves[n].item = toc_items[i]
                      /\ files[toc_items[i].filename] = saves[n].content

\* the image parts of the package, by position
ImageParts(d) ==
    {k \in 1..Len(d.parts) : IsPrefix(ImagePrefix, d.parts[k].content_type)}

\* C12: a failure on one image part is absorbed by the extraction loop: the
\* step over an image part either records it or leaves the asset table and the
\* counter as they were, with no entry for that relationship id; either way
\* the run is not ended, the loop moves on to the next part, and after the
\* last part the TOC build begins.
C12_ImageFailureAbsorbed ==
    [][/\ (pc = "extract" /\ idx <= Len(doc.parts))
           => /\ pc' = "extract"
              /\ rc' = rc
              /\ idx' = idx + 1
              /\ idx \in ImageParts(doc)
                    => LET rid == doc.parts[idx].rid
                       IN  \/ /\ rid \in DOMAIN image_map'
                              /\ image_counter' = image_counter + 1
                           \/ /\ rid \notin DOMAIN image_map'
                              /\ image_map' = image_map
                              /\ image_counter' = image_counter
       /\ (pc = "extract" /\ idx > Len(doc.parts))
           => /\ pc' = "parse"
              /\ rc' = rc
              /\ image_map' = image_map]_vars

\* the first image failed, the later one was recorded under the first number,
\* and the run went through every later stage
C12_Witness ==
    /\ Finished
    /\ Rid1 \notin DOMAIN image_map
    /\ Rid3 \in DOMAIN image_map
    /\ image_map[Rid3] = ImageFilename(1, Png)
    /\ toc_items # <<>>
    /\ {SummaryMd, ReadmeMd, BookJson} \subseteq DOMAIN files

\* the asset table is well formed: file names pairwise distinct, entries only
\* for parts whose media type begins with image/, the counter at least 1
AssetTableWellFormed ==
    /\ image_counter >= 1
    /\ \A r, s \in DOMAIN image_map : r # s => image_map[r] # image_map[s]
    /\ \A r \in DOMAIN image_map :
           \E k \in ImageParts(doc) : doc.parts[k].rid = r

\* C13: in every state the asset table is well formed; the image counter
\* starts at 1, never decreases and is never reset: a step advances it by
\* exactly one for each image it records (one at most) and leaves it alone
\* otherwise, also when the image before failed.
C13_AssetTableAndCounter ==
    [][/\ AssetTableWellFormed
       /\ AssetTableWellFormed'
       /\ pc = "main" => image_counter = 1
       /\ image_counter' >= image_counter
       /\ DOMAIN image_map \subseteq DOMAIN image_map'
       /\ image_counter' - image_counter
              = Cardinality(DOMAIN image_map' \ DOMAIN image_map)
       /\ image_counter' - image_counter <= 1]_vars

\* both images were recorded, under the numbers 1 and 2, in a finished run
C13_Witness ==
    /\ Finished
    /\ Rid1 \in DOMAIN image_map
    /\ Rid3 \in DOMAIN image_map
    /\ image_map[Rid1] = ImageFilename(1, <<"j", "p", "e", "g">>)
    /\ image_map[Rid3] = ImageFilename(2, Png)
    /\ image_counter = 3

\* the bullet line of one TOC entry, without its line end
Bullet(item) ==
    Rep(<<" ">>, 2 * (item.level - 1)) \o <<"*", " ", "[">> \o item.title
        \o <<"]", "(">> \o item.filename \o <<")">>

\* C14: the lines of SUMMARY.md after the head line "# Summary" and the blank
\* line that follows it are the bullet lines of the TOC entries, one per entry
\* and in TOC order, each indented by two spaces per depth above 1 and linking
\* the title to the file name.
C14_SummaryBullets ==
    Finished =>
        /\ SummaryMd \in DOMAIN files
        /\ LET lines == Split(files[SummaryMd], NL)
               n == Len(toc_items)
           IN  /\ Len(lines) = n + 3
               /\ lines[1] = <<"#", " ", "S", "u", "m", "m", "a", "r", "y">>
               /\ lines[2] = <<>>
               /\ \A i \in 1..n : lines[i + 2] = Bullet(toc_items[i])
               /\ lines[n + 3] = <<>>

\* a finished run with a depth-1 entry followed by a depth-2 entry
C14_Witness ==
    /\ Finished
    /\ Len(toc_items) >= 2
    /\ toc_items[1].level = 1
    /\ toc_items[2].level = 2

\* the n-th position that opens a chapter, and the text of the section that
\* starts at the opening position i: its heading line, then the renderings of
\* its nodes in document order
NthOpener(n) ==
    CHOOSE i \in Openers(doc, toc_items, max_toc_level) :
        Cardinality({j \in Openers(doc, toc_items, max_toc_level) : j <= i}) = n

SectionText(i) ==
    <<"#", " ">> \o HeadingTitle(doc.body[i]) \o <<NL, NL>>
        \o Flatten([k \in 1..Cardinality(SectionOf(doc, toc_items, max_toc_level, i)) |->
                       RenderNode(doc.body[i + k], image_map)])

\* C15: during segmentation every buffer but the one opened last is closed
\* (saved), so at most one is open; each buffer is saved as its heading line
\* followed by the renderings, in document order, of exactly the nodes between
\* its heading and the next qualifying heading, so a node before the first
\* qualifying heading is in no buffer; and after the run every such node's
\* section text is the content of the file of the heading that opened it.
C15_OneDestinationPerNode ==
    /\ pc = "chapters"
          => LET seen == {i \in Openers(doc, toc_items, max_toc_level) : i < idx}
             IN  /\ Len(saves) = IF seen = {} THEN 0 ELSE Cardinality(seen) - 1
                 /\ (current_toc_item # NoItem) <=> (seen # {})
    /\ Finished
          => /\ Len(saves) = Cardinality(Openers(doc, toc_items, max_toc_level))
             /\ \A n \in 1..Len(saves) : saves[n].content = SectionText(NthOpener(n))
             /\ \A i \in Openers(doc, toc_items, max_toc_level) :
                  \A k \in SectionOf(doc, toc_items, max_toc_level, i) :
                     LET f == TitleToToc(toc_items, HeadingTitle(doc.body[i])).filename
                     IN  /\ f \in DOMAIN files
                         /\ files[f] = SectionText(i)

\* one step of the run keeps the passes in order: the asset table is written
\* in the extraction pass only and the TOC in the TOC build only; a pass is
\* left only when its walk is complete, and for the next pass; section files
\* are saved in the segmentation pass only and the summary is written after
\* it.  strict: a section file is saved only when the walk over the body is
\* complete; otherwise also at a heading that opens the next chapter.
PassStep(strict) ==
    /\ image_map' # image_map => pc = "extract"
    /\ toc_items' # toc_items => pc = "parse"
    /\ (pc = "extract" /\ pc' # "extract")
           => idx > Len(doc.parts) /\ pc' = "parse"
    /\ (pc = "parse" /\ pc' # "parse")
           => idx > Len(Paragraphs(doc)) /\ pc' = "generate"
    /\ pc = "generate" => pc' = "chapters"
    /\ (pc = "chapters" /\ pc' # "chapters")
           => idx > Len(doc.body) /\ pc' = "config"
    /\ pc = "config" => pc' = "exit"
    /\ (SummaryMd \in DOMAIN files' /\ SummaryMd \notin DOMAIN files) => pc = "config"
    /\ saves' # saves
           => /\ pc = "chapters"
              /\ \/ idx > Len(doc.body)
                 \/ /\ ~strict
                    /\ idx <= Len(doc.body)
                    /\ OpensChapter(doc.body[idx], toc_items, max_toc_level)

\* C16 (as claimed): the passes asset extraction, TOC build, segmentation and
\* file emission happen in this order, each complete before the next begins;
\* no section file is written before the segmentation walk has consumed the
\* whole body.
C16_EmissionAfterSegmentation == [][PassStep(TRUE)]_vars

\* C16 (amended): asset extraction, TOC build and segmentation happen in this
\* order, each complete before the next begins, and the configuration files
\* are written after segmentation; section files are written during the
\* segmentation walk, one each time a heading opens the next chapter, and the
\* last one when the walk is complete.
C16_EmissionDuringSegmentation == [][PassStep(FALSE)]_vars

\* a section file is on disk while body nodes are still to be walked
C16_Witness ==
    /\ pc = "chapters"
    /\ idx <= Len(doc.body)
    /\ saves # <<>>
    /\ saves[1].item.filename \in DOMAIN files
    /\ files[saves[1].item.filename] = saves[1].content

\* a body node that is a heading of depth at most the maximum with a title
\* that is not blank
QualifyingHeading(node) ==
    /\ node.kind = "p"
    /\ IsHeading(node)
    /\ ExtractHeadingLevel(node.style) <= max_toc_level
    /\ HeadingTitle(node) # <<>>

\* the titles and depths a TOC must list for the document
ExpectedToc ==
    LET hs == SelectSeq(doc.body, QualifyingHeading)
    IN  IF hs = <<>>
        THEN <<[title |-> PlaceholderTitle, level |-> 1]>>
        ELSE [i \in 1..Len(hs) |->
                 [title |-> HeadingTitle(hs[i]),
                  level |-> ExtractHeadingLevel(hs[i].style)]]

TocBuilt == pc \in {"generate", "chapters", "config"} \/ Finished

\* C17: once the TOC is built it lists, in document order and one entry per
\* occurrence, the title and depth of exactly the headings of depth at most
\* the maximum whose trimmed title is not empty, or the one placeholder entry
\* of depth 1 when there is none; so every entry has a depth from 1 to the
\* maximum and a title that is not empty.
C17_TocIsQualifyingHeadings ==
    TocBuilt =>
        /\ [i \in 1..Len(toc_items) |->
               [title |-> toc_items[i].title, level |-> toc_items[i].level]]
             = ExpectedToc
        /\ \A i \in 1..Len(toc_items) :
               /\ 1 <= toc_items[i].level
               /\ toc_items[i].level <= max_toc_level
               /\ toc_items[i].title # <<>>

\* a TOC of two entries built from a body of three headings: one heading was
\* too deep or blank
C17_Witness ==
    /\ pc = "generate"
    /\ Len(toc_items) = 2
    /\ Len(doc.body) = 3
    /\ \A k \in 1..3 : doc.body[k].kind = "p" /\ IsHeading(doc.body[k])

(***************************************************************************)
(* _convert_paragraph_to_markdown called on one paragraph (specification   *)
(* SpecParagraph).                                                         *)
(***************************************************************************)
ParagraphStyles == {StyleNormal, StyleHeading, StyleH1, StyleH2}

ParagraphRuns ==
    {[Run(t) EXCEPT !.drawings = d, !.picts = v] :
        t \in {<<>>, <<" ">>, <<"x">>},
        d \in {<<>>, <<<<Rid1>>>>, <<<<RidX>>>>},
        v \in {<<>>, <<<<Rid3>>>>}}

InitParagraph ==
    /\ Idle
    /\ pc = "call_paragraph"
    /\ idx = 0
    /\ current_chapter = 1
    /\ image_map = CallImageMap

\* self._convert_paragraph_to_markdown(para)
CallConvertParagraphToMarkdown ==
    /\ pc = "call_paragraph"
    /\ idx = 0
    /\ \E style \in ParagraphStyles, runs \in SeqsUpTo(ParagraphRuns, MaxRuns) :
         LET para == Para(style, runs)
         IN  /\ call_in' = [para |-> para]
             /\ call_out' = ConvertParagraphToMarkdown(para, image_map)
    /\ idx' = 1
    /\ UNCHANGED <<pc, rc, out_exists, files, doc, max_toc_level, toc_items,
                   current_chapter, image_counter, image_map, current_toc_item,
                   current_content, saves>>

SpecParagraph == InitParagraph /\ [][CallConvertParagraphToMarkdown]_vars

BlankText(para) == \A k \in 1..Len(ParaText(para)) : ParaText(para)[k] \in Whitespace

HasMappedImage(para) == ReadShapeIds(para) \cap DOMAIN image_map # {}

\* '#' repeated depth times, a space, the text of the paragraph, two newlines
HeadingLine(para) ==
    [k \in 1..ExtractHeadingLevel(para.style) |-> "#"] \o <<" ">> \o ParaText(para)
        \o <<NL, NL>>

EndsWith(s, t) == Len(s) >= Len(t) /\ SubSeq(s, Len(s) - Len(t) + 1, Len(s)) = t

ImageTagCount(s) == Occurrences(s, <<"!", "[">>)

\* C18 (as claimed): a heading paragraph gives its heading line alone, with no
\* image tag, whatever images its runs embed; a paragraph that is no heading
\* gives a single newline when it has no text and no mapped image, and a
\* fragment that ends with two newlines otherwise.
C18_HeadingLineWhateverText ==
    (pc = "call_paragraph" /\ idx = 1) =>
        LET para == call_in.para
        IN  /\ IsHeading(para)
                => call_out = HeadingLine(para) /\ ImageTagCount(call_out) = 0
            /\ (~IsHeading(para) /\ BlankText(para) /\ ~HasMappedImage(para))
                => call_out = <<NL>>
            /\ (~IsHeading(para) /\ ~(BlankText(para) /\ ~HasMappedImage(para)))
                => EndsWith(call_out, <<NL, NL>>)

\* C18 (amended): a paragraph of any style whose text is blank gives a single
\* newline when it has no mapped image, and otherwise one image tag per mapped
\* image and no heading line, ending with two newlines; a heading paragraph
\* whose text is not blank gives its heading line alone, with no image tag,
\* whatever images its runs embed; any other paragraph gives a fragment that
\* ends with two newlines.
C18_BlankTextBeforeHeading ==
    (pc = "call_paragraph" /\ idx = 1) =>
        LET para == call_in.para
        IN  /\ (BlankText(para) /\ ~HasMappedImage(para))
                => call_out = <<NL>>
            /\ (BlankText(para) /\ HasMappedImage(para))
                => /\ ImageTagCount(call_out)
                          = Cardinality(ReadShapeIds(para) \cap DOMAIN image_map)
                   /\ Occurrences(call_out, <<"#">>) = 0
                   /\ EndsWith(call_out, <<NL, NL>>)
            /\ (~BlankText(para) /\ IsHeading(para))
                => call_out = HeadingLine(para) /\ ImageTagCount(call_out) = 0
            /\ (~BlankText(para) /\ ~IsHeading(para))
                => EndsWith(call_out, <<NL, NL>>)

\* the call was made on a heading with blank text and a mapped image, and on
\* it gave an image tag
C18_Witness ==
    /\ pc = "call_paragraph"
    /\ idx = 1
    /\ IsHeading(call_in.para)
    /\ BlankText(call_in.para)
    /\ HasMappedImage(call_in.para)
    /\ ImageTagCount(call_out) = 1

(***************************************************************************)
(* The frame of the passes (specification Spec).                           *)
(***************************************************************************)
\* C19: the asset table and the image counter change in the asset-extraction
\* pass only and the TOC list in the TOC-build pass only; the steps of
\* segmentation, rendering and the emission of the configuration files leave
\* the asset table, the TOC list, the image counter and the configuration as
\* they were.
C19_TablesFrozenAfterBuild ==
    [][/\ (image_map' # image_map \/ image_counter' # image_counter) => pc = "extract"
       /\ toc_items' # toc_items => pc = "parse"
       /\ max_toc_level' = max_toc_level
       /\ pc \in {"generate", "chapters", "config"}
             => /\ image_map' = image_map
                /\ image_counter' = image_counter
                /\ toc_items' = toc_items]_vars

\* a finished run whose asset table holds both images and whose TOC holds two
\* entries, after a section with an image tag was rendered and saved
C19_Witness ==
    /\ Finished
    /\ DOMAIN image_map = {Rid1, Rid3}
    /\ image_counter = 3
    /\ Len(toc_items) = 2
    /\ \E n \in 1..Len(saves) : ImageTagCount(saves[n].content) >= 1

====
